---- MODULE Spec2Model ----
(***************************************************************************)
(* The settings store of GlanceThing (src/main/lib/storage.ts): one JSON   *)
(* document on disk, read and rewritten whole by every operation, with an  *)
(* optional encryption of values and a table of post-write handlers.       *)
(*                                                                         *)
(* Every exported operation is an async function whose file accesses are   *)
(* synchronous (fs.*Sync).  A call therefore runs its first segment when   *)
(* it is called and each further segment as one microtask; microtasks run  *)
(* in FIFO order.  The model keeps that queue: Start* actions run the      *)
(* synchronous segment of a call, the other actions run the microtask at   *)
(* the head of the queue.  Calls may be started at any moment.             *)
(*                                                                         *)
(* The Settings page of the renderer (src/renderer/src/pages/Settings/     *)
(* Settings.tsx) is a second state machine, kept in ui: React state and    *)
(* context values, the values of the last render, and the effects and      *)
(* timers that render left to run.                                         *)
(***************************************************************************)
EXTENDS Integers, Sequences, FiniteSets, TLC

VARIABLES
    file,        \* storage.json: [exists |-> BOOLEAN, text |-> sequence of JSON tokens]
    encAvail,    \* safeStorage.isEncryptionAvailable()
    calls,       \* every call started so far, in start order
    queue,       \* the microtask queue: ids of the suspended calls, FIFO
    handlerLog,  \* the handler invocations made so far, in order
    ui           \* the Settings page of the renderer: its state and what it has rendered

vars == <<file, encAvail, calls, queue, handlerLog, ui>>

\* ------------------------------------------------------------------------
\* Bounds
\* ------------------------------------------------------------------------
MaxCalls == 2
\* timers of the Settings page pending at one time
MaxTimers == 2

\* ------------------------------------------------------------------------
\* JavaScript values.  A value is a record [t |-> type tag, v |-> text].
\* ------------------------------------------------------------------------
JVal(t, v) == [t |-> t, v |-> v]
Undefined == JVal("undefined", "")
Null == JVal("null", "")
JFalse == JVal("boolean", "false")
JTrue == JVal("boolean", "true")
JNum(n) == JVal("number", n)
JStr(s) == JVal("string", s)
\* Object.prototype and the function Object, both inherited by every plain object
ObjectPrototype == JVal("object", "Object.prototype")
ObjectFunction == JVal("function", "Object")
\* what a primitive inherits through its wrapper: a number from Number.prototype,
\* a string from String.prototype, a boolean from Boolean.prototype
NumberPrototype == JVal("object", "Number.prototype")
NumberFunction == JVal("function", "Number")
StringPrototype == JVal("object", "String.prototype")
StringFunction == JVal("function", "String")
BooleanPrototype == JVal("object", "Boolean.prototype")
BooleanFunction == JVal("function", "Boolean")

\* ToBoolean, as used by `!socketPassword`, `safeParse(..) || {}`, `if (handler)`
Truthy(val) ==
    CASE val.t \in {"undefined", "null"} -> FALSE
      [] val.t = "boolean" -> val.v = "true"
      [] val.t = "number" -> val.v # "0"
      [] val.t = "string" -> val.v # ""
      [] OTHER -> TRUE

\* String(value)
ToStringJS(val) ==
    CASE val.t = "undefined" -> "undefined"
      [] val.t = "null" -> "null"
      [] val = NumberPrototype -> "0"
      [] val = StringPrototype -> ""
      [] val = BooleanPrototype -> "false"
      [] val.t = "object" -> "[object Object]"
      [] val.t = "function" -> "function " \o val.v \o "() { [native code] }"
      [] OTHER -> val.v

\* ------------------------------------------------------------------------
\* JSON text: a sequence of tokens [k |-> kind, v |-> text].  White space,
\* which JSON.stringify(.., null, 2) adds and JSON.parse skips, is left out.
\* ------------------------------------------------------------------------
Tok(k, v) == [k |-> k, v |-> v]
LBrace == Tok("punct", "{")
RBrace == Tok("punct", "}")
Colon == Tok("punct", ":")
Comma == Tok("punct", ",")

IsValueToken(tok) ==
    \/ tok.k \in {"string", "number"}
    \/ tok.k = "literal" /\ tok.v \in {"true", "false", "null"}

\* the token JSON.stringify writes for a scalar
ValueToken(val) ==
    CASE val.t = "string" -> Tok("string", val.v)
      [] val.t = "number" -> Tok("number", val.v)
      [] val.t = "boolean" -> Tok("literal", val.v)
      [] OTHER -> Tok("literal", "null")

\* the scalar JSON.parse reads from a value token
TokenValue(tok) ==
    CASE tok.k = "string" -> JStr(tok.v)
      [] tok.k = "number" -> JNum(tok.v)
      [] tok.v = "null" -> Null
      [] OTHER -> JVal("boolean", tok.v)

\* JSON.stringify leaves out the properties whose value is undefined or a function
Serializable(val) == val.t \in {"null", "boolean", "number", "string"}

\* ------------------------------------------------------------------------
\* Plain objects: the own properties in insertion order, each [k |-> key,
\* v |-> value]; the prototype is Object.prototype.  A parsed document that
\* is not an object is kept as the primitive it is.
\* ------------------------------------------------------------------------
EmptyObject == [t |-> "object", prim |-> Undefined, props |-> <<>>]
ObjectOf(props) == [t |-> "object", prim |-> Undefined, props |-> props]
Primitive(val) == [t |-> "primitive", prim |-> val, props |-> <<>>]

HasOwn(props, key) == \E i \in 1..Len(props) : props[i].k = key

OwnValue(props, key) == props[CHOOSE i \in 1..Len(props) : props[i].k = key].v

\* mutant of DefineOwn: an entry that exists keeps the value it has
DefineOwnKeepsFirst(props, key, val) ==
    IF HasOwn(props, key) THEN props ELSE Append(props, [k |-> key, v |-> val])

\* CreateDataProperty: replace the value in place, or append a new property
DefineOwn(props, key, val) ==
    IF HasOwn(props, key)
    THEN [i \in 1..Len(props) |->
            IF props[i].k = key THEN [k |-> key, v |-> val] ELSE props[i]]
    ELSE Append(props, [k |-> key, v |-> val])

\* what every plain object inherits from Object.prototype (the names the model uses)
Inherited(key) ==
    CASE key = "constructor" -> ObjectFunction
      [] key = "__proto__" -> ObjectPrototype
      [] OTHER -> Undefined

\* what a primitive document inherits through its wrapper object (the names
\* the model uses); the own index and length properties of a string are not
\* among the keys of the model
InheritedByPrimitive(prim, key) ==
    CASE key = "constructor" ->
             (CASE prim.t = "number" -> NumberFunction
                [] prim.t = "string" -> StringFunction
                [] OTHER -> BooleanFunction)
      [] key = "__proto__" ->
             (CASE prim.t = "number" -> NumberPrototype
                [] prim.t = "string" -> StringPrototype
                [] OTHER -> BooleanPrototype)
      [] OTHER -> Undefined

RECURSIVE Members(_)
Members(props) ==
    IF props = <<>> THEN <<>>
    ELSE LET p == Head(props)
             m == <<Tok("string", p.k), Colon, ValueToken(p.v)>>
         IN IF Tail(props) = <<>> THEN m ELSE m \o <<Comma>> \o Members(Tail(props))

JSONStringify(obj) ==
    IF obj.t = "primitive" THEN <<ValueToken(obj.prim)>>
    ELSE <<LBrace>> \o Members(SelectSeq(obj.props, LAMBDA p : Serializable(p.v))) \o <<RBrace>>

\* the text between the braces is `"k" : v` members separated by commas
IsMembersText(inner) ==
    \/ inner = <<>>
    \/ /\ Len(inner) % 4 = 3
       /\ \A i \in 1..Len(inner) :
            CASE i % 4 = 1 -> inner[i].k = "string"
              [] i % 4 = 2 -> inner[i] = Colon
              [] i % 4 = 3 -> IsValueToken(inner[i])
              [] OTHER -> inner[i] = Comma

RECURSIVE ParseMembers(_, _)
ParseMembers(inner, props) ==
    IF Len(inner) < 3 THEN props
    ELSE ParseMembers(SubSeq(inner, 5, Len(inner)),
                      DefineOwn(props, inner[1].v, TokenValue(inner[3])))

\* JSON.parse: [ok |-> the text is JSON, val |-> the value read]
JSONParse(text) ==
    IF /\ Len(text) >= 2
       /\ text[1] = LBrace
       /\ text[Len(text)] = RBrace
       /\ IsMembersText(SubSeq(text, 2, Len(text) - 1))
    THEN [ok |-> TRUE, val |-> ObjectOf(ParseMembers(SubSeq(text, 2, Len(text) - 1), <<>>))]
    ELSE IF Len(text) = 1 /\ IsValueToken(text[1])
    THEN [ok |-> TRUE, val |-> Primitive(TokenValue(text[1]))]
    ELSE [ok |-> FALSE, val |-> Primitive(Undefined)]

\* utils.safeParse: the parsed value, or a falsy value when the text is not JSON
safeParse(text) ==
    IF JSONParse(text).ok THEN JSONParse(text).val ELSE Primitive(Null)

\* `safeParse(storage) || {}`
ParsedOrEmpty(text) ==
    LET parsed == safeParse(text)
    IN IF parsed.t = "primitive" /\ ~Truthy(parsed.prim) THEN EmptyObject ELSE parsed

\* storage[key]: own property first, then the prototype chain, which for a
\* primitive document is that of its wrapper
PropGet(storage, key) ==
    IF storage.t = "primitive" THEN InheritedByPrimitive(storage.prim, key)
    ELSE IF HasOwn(storage.props, key) THEN OwnValue(storage.props, key)
    ELSE Inherited(key)

\* mutant of PropSet: the assignment yields an object holding the new entry
\* alone
PropSetAlone(storage, key, val) ==
    IF key # "__proto__" THEN ObjectOf(<<[k |-> key, v |-> val]>>) ELSE storage

\* storage[key] = value: on an object an own property is written; `__proto__`
\* without an own property of that name runs the inherited setter, which
\* adds no property (and returns silently on a primitive); any other key
\* becomes a new own property.
PropSet(storage, key, val) ==
    IF HasOwn(storage.props, key) \/ key # "__proto__"
    THEN ObjectOf(DefineOwn(storage.props, key, val))
    ELSE storage

\* storage[key] = value throws a TypeError on a primitive (module code is
\* strict), unless the key is `__proto__`, whose inherited setter is called
PropSetThrows(storage, key) == storage.t = "primitive" /\ key # "__proto__"

\* ------------------------------------------------------------------------
\* The secure value codec (electron safeStorage, Buffer).  A Buffer is
\* [cipher |-> it is the ciphertext of data, data |-> text]; the hex text
\* of a ciphertext is written hex(enc(plaintext)).
\* ------------------------------------------------------------------------
Secrets == {"S1", "S2"}        \* the strings random(64) may return, all non-empty
DcValues == {"dc1"}            \* the cookies given to setSpotifyDc

\* safeStorage.encryptString(plain)
EncryptString(plain) == [cipher |-> TRUE, data |-> plain]

\* buffer.toString('hex')
ToHex(buf) == IF buf.cipher THEN "hex(enc(" \o buf.data \o "))" ELSE buf.data

\* line 73: value = safeStorage.encryptString(String(value)).toString('hex')
EncodeValue(val) == JStr(ToHex(EncryptString(ToStringJS(val))))

\* lines 66-75: the representation setStorageValue persists
Representation(val, secure, avail) ==
    IF secure /\ avail THEN EncodeValue(val) ELSE val

\* the keys of the handler table, with the function each names
HandlerKeys == {"launchOnStartup", "timeFormat", "dateFormat"}

storageValueHandlers ==
    ObjectOf(<<[k |-> "launchOnStartup", v |-> JVal("function", "setLoginItemSettings")],
               [k |-> "timeFormat", v |-> JVal("function", "updateTime")],
               [k |-> "dateFormat", v |-> JVal("function", "updateTime")]>>)

\* the inputs of the calls
Keys == {"timeFormat", "launchOnStartup", "socketPassword", "constructor", "__proto__"}
Values == {Undefined, Null, JFalse, JNum("0"), JStr(""), JStr("abc")}

\* every plaintext some call may encrypt
Plaintexts == {ToStringJS(v) : v \in Values} \cup Secrets \cup DcValues

\* Buffer.from(text, 'hex'): the ciphertext bytes when text is the hex of one
BufferFromHex(text) ==
    IF \E p \in Plaintexts : ToHex(EncryptString(p)) = text
    THEN EncryptString(CHOOSE p \in Plaintexts : ToHex(EncryptString(p)) = text)
    ELSE [cipher |-> FALSE, data |-> text]

Returned(val) == [st |-> "returned", val |-> val]
Threw(what) == [st |-> "threw", val |-> JStr(what)]
Pending == [st |-> "pending", val |-> Undefined]

\* mutant of DecodeValue: the stored text is returned without being decrypted
DecodeValueRaw(val) == Returned(val)

\* line 54: safeStorage.decryptString(Buffer.from(value, 'hex')).toString().
\* Buffer.from reads a string, or the string an object's valueOf() gives
\* (String.prototype gives ''), and throws a TypeError on anything else;
\* decryptString throws on bytes that are no ciphertext.
DecodeValue(val) ==
    LET text == IF val = StringPrototype THEN JStr("") ELSE val
    IN IF text.t # "string" THEN Threw("TypeError")
       ELSE IF BufferFromHex(text.v).cipher THEN Returned(JStr(BufferFromHex(text.v).data))
       ELSE Threw("Error")

\* mutant of GetOutcome: absence is tested with `!value`
GetOutcomeFalsy(storage, key, secure, avail) ==
    LET value == PropGet(storage, key)
    IN IF ~Truthy(value) THEN Returned(Null)
       ELSE IF secure /\ avail THEN DecodeValue(value)
       ELSE Returned(value)

\* lines 42-57: what getStorageValue returns from the parsed document
GetOutcome(storage, key, secure, avail) ==
    LET value == PropGet(storage, key)
    IN IF value = Undefined THEN Returned(Null)
       ELSE IF secure /\ avail THEN DecodeValue(value)
       ELSE Returned(value)

\* mutant of EnsureFile: the missing file is created empty
EnsureFileEmpty(f) == IF f.exists THEN f ELSE [exists |-> TRUE, text |-> <<>>]

\* lines 22-23: getStoragePath seeds a missing file with `{}`
EnsureFile(f) == IF f.exists THEN f ELSE [exists |-> TRUE, text |-> <<LBrace, RBrace>>]

\* lines 30-31: getStorage after its await
ReadDocument(f) == ParsedOrEmpty(f.text)

\* ------------------------------------------------------------------------
\* Calls
\* ------------------------------------------------------------------------
NewCall(op, key, arg, secure, value, pc) ==
    [op |-> op, key |-> key, arg |-> arg, secure |-> secure, value |-> value,
     pc |-> pc, read |-> <<>>, storage |-> EmptyObject, got |-> Undefined,
     inner |-> Pending, res |-> Pending,
     writes |-> 0, before |-> file, overlapped |-> queue # <<>>]

\* a call starts: its synchronous segment ends in getStoragePath (line 29) and
\* the call is suspended; the calls still running are now overlapped
Begin(call) ==
    /\ Len(calls) < MaxCalls
    /\ calls' = Append([i \in 1..Len(calls) |->
                          IF calls[i].pc # "done"
                          THEN [calls[i] EXCEPT !.overlapped = TRUE] ELSE calls[i]],
                       call)
    /\ queue' = Append(queue, Len(calls) + 1)
    /\ file' = EnsureFile(file)
    /\ UNCHANGED <<encAvail, handlerLog, ui>>

StartGetStorageValue(key, secure) ==
    Begin(NewCall("getStorageValue", key, Undefined, secure, Undefined, "get_read"))

StartSetStorageValue(key, val, secure) ==
    Begin(NewCall("setStorageValue", key, val, secure,
                  Representation(val, secure, encAvail), "set_read"))

StartGetSocketPassword ==
    Begin(NewCall("getSocketPassword", "socketPassword", Undefined, TRUE, Undefined, "get_read"))

StartGetSpotifyDc ==
    Begin(NewCall("getSpotifyDc", "sp_dc", Undefined, TRUE, Undefined, "get_read"))

StartSetSpotifyDc(dc) ==
    Begin(NewCall("setSpotifyDc", "sp_dc", JStr(dc), TRUE,
                  Representation(JStr(dc), TRUE, encAvail), "set_read"))

\* the call whose microtask runs next
Running == Head(queue)
At(pc) == queue # <<>> /\ calls[Running].pc = pc

\* the running call is suspended again at pc, with the fields changed
Suspend(call) ==
    /\ calls' = [calls EXCEPT ![Running] = call]
    /\ queue' = Append(Tail(queue), Running)
    /\ UNCHANGED ui

\* the running call ends with res
Finish(call, res) ==
    /\ calls' = [calls EXCEPT ![Running] = [call EXCEPT !.pc = "done", !.res = res]]
    /\ queue' = Tail(queue)
    /\ UNCHANGED ui

\* the exported functions that call getStorageValue or setStorageValue and
\* hand on its outcome: lines 91 and 94 (a throw passes the await), 100, 104
Wrappers == {"getSocketPassword", "getSpotifyDc", "setSpotifyDc"}

\* getStorageValue or setStorageValue ends with res: that ends the call when
\* it is the function called; a wrapper's own promise takes the outcome one
\* microtask later
Return(call, res) ==
    IF call.op \in Wrappers
    THEN Suspend([call EXCEPT !.inner = res, !.pc = "settle"])
    ELSE Finish(call, res)

\* lines 91, 94, 100, 104: the wrapper's promise settles as the inner one did
Settle ==
    /\ At("settle")
    /\ Finish(calls[Running], calls[Running].inner)
    /\ UNCHANGED <<file, encAvail, handlerLog>>

\* lines 30-31, in getStorageValue (line 41) and setStorageValue (line 77)
GetStorage ==
    /\ At("get_read") \/ At("set_read")
    /\ LET c == calls[Running]
       IN Suspend([c EXCEPT !.read = file.text,
                            !.storage = ReadDocument(file),
                            !.pc = IF c.pc = "get_read" THEN "get_lookup" ELSE "set_assign"])
    /\ UNCHANGED <<file, encAvail, handlerLog>>

\* lines 42-57: getStorageValue and getSpotifyDc return (or throw)
GetReturn ==
    /\ At("get_lookup")
    /\ calls[Running].op # "getSocketPassword"
    /\ LET c == calls[Running]
       IN Return(c, GetOutcome(c.storage, c.key, c.secure, encAvail))
    /\ UNCHANGED <<file, encAvail, handlerLog>>

\* line 91: the getStorageValue called by getSocketPassword ends: its value
\* is received after the await, its throw passes the await
GspReceive ==
    /\ At("get_lookup")
    /\ calls[Running].op = "getSocketPassword"
    /\ LET c == calls[Running]
           out == GetOutcome(c.storage, c.key, c.secure, encAvail)
       IN IF out.st = "threw" THEN Return(c, out)
          ELSE Suspend([c EXCEPT !.got = out.val, !.pc = "gsp_check"])
    /\ UNCHANGED <<file, encAvail, handlerLog>>

\* lines 92, 96: a truthy password is returned as it is
GspReturnStored ==
    /\ At("gsp_check")
    /\ Truthy(calls[Running].got)
    /\ Finish(calls[Running], Returned(calls[Running].got))
    /\ UNCHANGED <<file, encAvail, handlerLog>>

\* lines 92-94: a falsy one is replaced by random(64) and setStorageValue is
\* called, which runs up to its first await
GspProvision ==
    /\ At("gsp_check")
    /\ ~Truthy(calls[Running].got)
    /\ \E s \in Secrets :
         Suspend([calls[Running] EXCEPT !.arg = JStr(s),
                                        !.value = Representation(JStr(s), TRUE, encAvail),
                                        !.pc = "set_read"])
    /\ file' = EnsureFile(file)
    /\ UNCHANGED <<encAvail, handlerLog>>

\* mutant of Assign: the handler lookup follows the assignment at once, the
\* document is not written
AssignSkipsWrite ==
    /\ At("set_assign")
    /\ Suspend([calls[Running] EXCEPT
                  !.storage = PropSet(calls[Running].storage, calls[Running].key,
                                      calls[Running].value),
                  !.pc = "set_handler"])
    /\ UNCHANGED <<file, encAvail, handlerLog>>

\* lines 78-80: storage[key] = value, then writeStorage up to its await
Assign ==
    /\ At("set_assign")
    /\ LET c == calls[Running]
       IN IF PropSetThrows(c.storage, c.key)
          THEN Return(c, Threw("TypeError")) /\ file' = file
          ELSE /\ Suspend([c EXCEPT !.storage = PropSet(c.storage, c.key, c.value),
                                    !.pc = "set_write"])
               /\ file' = EnsureFile(file)
    /\ UNCHANGED <<encAvail, handlerLog>>

\* mutant of WriteStorage: the write reads the file again and changes the one
\* key in what it finds (an atomic read-modify-write)
WriteStorageMerged ==
    /\ At("set_write")
    /\ file' = [exists |-> TRUE,
                text |-> JSONStringify(PropSet(ReadDocument(file), calls[Running].key,
                                               calls[Running].value))]
    /\ Suspend([calls[Running] EXCEPT !.writes = @ + 1, !.pc = "set_handler"])
    /\ UNCHANGED <<encAvail, handlerLog>>

\* line 36: the whole document is written
WriteStorage ==
    /\ At("set_write")
    /\ file' = [exists |-> TRUE, text |-> JSONStringify(calls[Running].storage)]
    /\ Suspend([calls[Running] EXCEPT !.writes = @ + 1, !.pc = "set_handler"])
    /\ UNCHANGED <<encAvail, handlerLog>>

\* line 82
HandlerFor(key) == PropGet(storageValueHandlers, key)

\* the entry a handler invocation leaves in the log (line 86: handler(value))
Invocation(id, call) ==
    [call |-> id, key |-> call.key, fn |-> HandlerFor(call.key).v, arg |-> call.value,
     writes |-> call.writes, failed |-> FALSE]

\* line 9: the launchOnStartup handler is an async function, so a failure in
\* it is a rejected promise, which line 86 does not await
AsyncHandlers == {"setLoginItemSettings"}

\* server.updateTime is called as a plain function: a throw in it is a throw
\* of line 86
SyncHandlers == {"updateTime"}

\* the handlers that may fail: app.setLoginItemSettings and updateTime reach
\* outside the store; the inherited Object(value) never throws
MayFail(fn) == fn \in AsyncHandlers \cup SyncHandlers

\* a failure of handler fn leaves line 86 as an exception
Propagates(fn) == fn \notin AsyncHandlers

\* after the handler lookup setStorageValue returns; in getSocketPassword
\* that resumes line 96
AfterSet(call) ==
    IF call.op = "getSocketPassword"
    THEN Suspend([call EXCEPT !.pc = "gsp_return"])
    ELSE Return(call, Returned(Undefined))

\* lines 82-87 with no handler found
NoHandler ==
    /\ At("set_handler")
    /\ ~Truthy(HandlerFor(calls[Running].key))
    /\ AfterSet(calls[Running])
    /\ UNCHANGED <<file, encAvail, handlerLog>>

\* lines 82-87 with a truthy entry: it is called; calling what is no function
\* throws a TypeError.  The handler itself may fail; the failure is not caught
\* here, and ends setStorageValue when it leaves the handler as an exception.
RunHandler ==
    /\ At("set_handler")
    /\ Truthy(HandlerFor(calls[Running].key))
    /\ IF HandlerFor(calls[Running].key).t = "function"
       THEN \E failed \in (IF MayFail(HandlerFor(calls[Running].key).v)
                           THEN BOOLEAN ELSE {FALSE}) :
              /\ handlerLog' = Append(handlerLog,
                                      [Invocation(Running, calls[Running])
                                          EXCEPT !.failed = failed])
              /\ IF failed /\ Propagates(HandlerFor(calls[Running].key).v)
                 THEN Return(calls[Running], Threw("HandlerError"))
                 ELSE AfterSet(calls[Running])
       ELSE /\ handlerLog' = handlerLog
            /\ Return(calls[Running], Threw("TypeError"))
    /\ UNCHANGED <<file, encAvail>>

\* line 96 after the provisioning
GspReturnNew ==
    /\ At("gsp_return")
    /\ Finish(calls[Running], Returned(calls[Running].arg))
    /\ UNCHANGED <<file, encAvail, handlerLog>>

\* ------------------------------------------------------------------------
\* The Settings page (Settings.tsx)
\* ------------------------------------------------------------------------
\* enum Tab
Tabs == {"General", "Client", "Appearance", "Startup", "Advanced", "About"}

\* what one render of Settings reads: the values its JSX and its effects close over
Rendered(tab, dev, open) == [currentTab |-> tab, devMode |-> dev, settingsOpen |-> open]

\* no effect with dependencies has run yet
NoDeps == <<>>

\* the page as constructed, before its first render: useState(Tab.General)
\* and the two context values it is given
InitialSettings(dev, open) ==
    [currentTab |-> "General", devMode |-> dev, settingsOpen |-> open,
     view |-> Rendered("General", dev, open),
     renderPending |-> TRUE, effectsPending |-> FALSE,
     deps |-> NoDeps, timers |-> 0, redirected |-> FALSE]

\* setCurrentTab(tab): a render is scheduled when the state changes
SetCurrentTab(st, tab) ==
    [st EXCEPT !.currentTab = tab, !.renderPending = @ \/ st.currentTab # tab]

\* the setter of DevModeContext: consumers render again when the value changes
SetDevMode(st, dev) ==
    [st EXCEPT !.devMode = dev, !.renderPending = @ \/ st.devMode # dev]

\* the setter of ModalContext
SetSettingsOpen(st, open) ==
    [st EXCEPT !.settingsOpen = open, !.renderPending = @ \/ st.settingsOpen # open]

\* lines 55-100: a tab button is clicked; the Advanced button is in the page
\* only when the last render saw devMode
ClickTab(tab) ==
    /\ tab = "Advanced" => ui.view.devMode
    /\ ui' = SetCurrentTab(ui, tab)
    /\ UNCHANGED <<file, encAvail, calls, queue, handlerLog>>

\* lines 27-29, 52: a click on the background or on the close button
CloseSettings ==
    /\ ui' = SetSettingsOpen(ui, FALSE)
    /\ UNCHANGED <<file, encAvail, calls, queue, handlerLog>>

\* the settings page is opened or closed from outside it
SettingsOpenChanged(open) ==
    /\ ui' = SetSettingsOpen(ui, open)
    /\ UNCHANGED <<file, encAvail, calls, queue, handlerLog>>

\* lines 437-442: the Developer Mode switch of the Advanced tab, which is in
\* the page when the last render was on that tab
DeveloperModeSwitch ==
    /\ ui.view.currentTab = "Advanced"
    /\ ui' = SetDevMode(ui, FALSE)
    /\ UNCHANGED <<file, encAvail, calls, queue, handlerLog>>

\* lines 465-471, 479: the version line of the About tab has been clicked
\* often enough and the tab was rendered without devMode
VersionClicked ==
    /\ ui.view.currentTab = "About"
    /\ ~ui.view.devMode
    /\ ui' = SetDevMode(ui, TRUE)
    /\ UNCHANGED <<file, encAvail, calls, queue, handlerLog>>

\* devMode is changed by another consumer of the context
DevModeChanged(dev) ==
    /\ ui' = SetDevMode(ui, dev)
    /\ UNCHANGED <<file, encAvail, calls, queue, handlerLog>>

\* lines 21-125: Settings renders with the current state and context, once
\* the effects of the render before have run
Render ==
    /\ ui.renderPending
    /\ ~ui.effectsPending
    /\ ui' = [ui EXCEPT !.view = Rendered(ui.currentTab, ui.devMode, ui.settingsOpen),
                        !.renderPending = FALSE, !.effectsPending = TRUE]
    /\ UNCHANGED <<file, encAvail, calls, queue, handlerLog>>

\* line 35: the first effect runs after the first render and after a render
\* in which settingsOpen or currentTab differ from the render before
DepsChanged(st) == st.deps # <<st.view.settingsOpen, st.view.currentTab>>

\* lines 32-34: the first effect starts a timer
ResetScheduled(st) ==
    DepsChanged(st) /\ ~st.view.settingsOpen /\ st.view.currentTab # "General"

\* mutant of LeavesAdvanced: the second effect does nothing
LeavesAdvancedNever(view) == FALSE

\* line 38: the second effect leaves the Advanced tab
LeavesAdvanced(view) == ~view.devMode /\ view.currentTab = "Advanced"

\* lines 31-39: the effects of the last render run, in the order they are
\* declared, with the values that render read
RunEffects ==
    /\ ui.effectsPending
    /\ ResetScheduled(ui) => ui.timers < MaxTimers
    /\ LET timed == [ui EXCEPT !.effectsPending = FALSE,
                               !.deps = <<ui.view.settingsOpen, ui.view.currentTab>>,
                               !.timers = IF ResetScheduled(ui) THEN @ + 1 ELSE @]
       IN ui' = IF LeavesAdvanced(ui.view)
                THEN [SetCurrentTab(timed, "General") EXCEPT !.redirected = TRUE]
                ELSE timed
    /\ UNCHANGED <<file, encAvail, calls, queue, handlerLog>>

\* line 33: a timer of the first effect fires
TimerFires ==
    /\ ui.timers > 0
    /\ ui' = [SetCurrentTab(ui, "General") EXCEPT !.timers = @ - 1]
    /\ UNCHANGED <<file, encAvail, calls, queue, handlerLog>>

\* ------------------------------------------------------------------------
\* Specifications
\* ------------------------------------------------------------------------
Missing == [exists |-> FALSE, text |-> <<>>]

Init ==
    /\ file = Missing
    /\ encAvail \in BOOLEAN
    /\ calls = <<>>
    /\ queue = <<>>
    /\ handlerLog = <<>>
    /\ ui = InitialSettings(FALSE, FALSE)

Next ==
    \/ \E key \in Keys, secure \in BOOLEAN : StartGetStorageValue(key, secure)
    \/ \E key \in Keys, val \in Values, secure \in BOOLEAN : StartSetStorageValue(key, val, secure)
    \/ StartGetSocketPassword
    \/ StartGetSpotifyDc
    \/ \E dc \in DcValues : StartSetSpotifyDc(dc)
    \/ GetStorage
    \/ GetReturn
    \/ GspReceive
    \/ GspReturnStored
    \/ GspProvision
    \/ Assign
    \/ WriteStorage
    \/ NoHandler
    \/ RunHandler
    \/ GspReturnNew
    \/ Settle

Spec == Init /\ [][Next]_vars

\* the store started on a file whose content was changed outside the program:
\* an empty file, a document cut off after a key, and files holding JSON
\* that is no object (a number, a string, true)
DamagedFiles ==
    {[exists |-> TRUE, text |-> <<>>],
     [exists |-> TRUE, text |-> <<LBrace, Tok("string", "socketPassword"), Colon>>],
     [exists |-> TRUE, text |-> <<Tok("number", "5")>>],
     [exists |-> TRUE, text |-> <<Tok("string", "abc")>>],
     [exists |-> TRUE, text |-> <<Tok("literal", "true")>>]}

InitDamaged ==
    /\ file \in DamagedFiles
    /\ encAvail \in BOOLEAN
    /\ calls = <<>>
    /\ queue = <<>>
    /\ handlerLog = <<>>
    /\ ui = InitialSettings(FALSE, FALSE)

SpecDamaged == InitDamaged /\ [][Next]_vars

\* the Settings page on its own: the store is left alone
InitSettings ==
    /\ file = Missing
    /\ encAvail = FALSE
    /\ calls = <<>>
    /\ queue = <<>>
    /\ handlerLog = <<>>
    /\ ui \in {InitialSettings(dev, open) : dev, open \in BOOLEAN}

NextSettings ==
    \/ \E tab \in Tabs : ClickTab(tab)
    \/ CloseSettings
    \/ \E open \in BOOLEAN : SettingsOpenChanged(open)
    \/ DeveloperModeSwitch
    \/ VersionClicked
    \/ \E dev \in BOOLEAN : DevModeChanged(dev)
    \/ Render
    \/ RunEffects
    \/ TimerFires

SpecSettings == InitSettings /\ [][NextSettings]_vars

\* ------------------------------------------------------------------------
\* Properties
\* ------------------------------------------------------------------------
Done(c) == calls[c].pc = "done"

\* call b was started after call a had ended, nothing else ran from the
\* start of a to the end of b, and nothing was started since
Sequential(a, b) ==
    /\ a \in DOMAIN calls /\ b = a + 1 /\ b = Len(calls)
    /\ Done(a) /\ Done(b)
    /\ ~calls[a].overlapped /\ ~calls[b].overlapped

\* the value the file holds under key: Undefined when it holds none
RawOnDisk(key) ==
    LET doc == JSONParse(file.text)
    IN IF doc.ok /\ doc.val.t = "object" /\ HasOwn(doc.val.props, key)
       THEN OwnValue(doc.val.props, key) ELSE Undefined

\* a completed setStorageValue(key, v, secure) followed by a completed
\* getStorageValue(key, secure), v a JSON value
SetThenGet(s, g, secure) ==
    /\ Sequential(s, g)
    /\ calls[s].op = "setStorageValue" /\ calls[g].op = "getStorageValue"
    /\ calls[s].secure = secure /\ calls[g].secure = secure
    /\ calls[g].key = calls[s].key
    /\ Serializable(calls[s].arg)

\* C1: after setStorageValue(k, v) has completed, with nothing interleaved,
\* getStorageValue(k) returns v, for every key and every JSON value.
C1_RoundTrip ==
    \A s, g \in DOMAIN calls :
        SetThenGet(s, g, FALSE) => calls[g].res = Returned(calls[s].arg)

\* C2: while encryption is available, setStorageValue(k, v, true) followed by
\* getStorageValue(k, true) returns v, and the file holds under k a value
\* other than v.
C2_SecureRoundTrip ==
    encAvail =>
        \A s, g \in DOMAIN calls :
            SetThenGet(s, g, TRUE) =>
                /\ calls[g].res = Returned(calls[s].arg)
                /\ RawOnDisk(calls[s].key) # calls[s].arg

\* C3: while encryption is unavailable, setStorageValue(k, v, true) followed
\* by getStorageValue(k, true) returns v, and the file holds v itself under k.
C3_GracefulDegradation ==
    ~encAvail =>
        \A s, g \in DOMAIN calls :
            SetThenGet(s, g, TRUE) =>
                /\ calls[g].res = Returned(calls[s].arg)
                /\ RawOnDisk(calls[s].key) = calls[s].arg

\* C4: getStorageValue(key) returns null, and does not throw, whenever the
\* document it read has no entry for key.
C4_Absence ==
    \A g \in DOMAIN calls :
        /\ Done(g) /\ calls[g].op = "getStorageValue" /\ ~calls[g].secure
        /\ ~HasOwn(calls[g].storage.props, calls[g].key)
        => calls[g].res = Returned(Null)

\* two getSocketPassword calls, one after the other, nothing interleaved
TwoProvisionings(a, b) ==
    /\ Sequential(a, b)
    /\ calls[a].op = "getSocketPassword" /\ calls[b].op = "getSocketPassword"

\* C5: of two sequential getSocketPassword calls the second returns what the
\* first returned and writes nothing: it leaves the file as it found it.
C5_IdempotentProvisioning ==
    \A a, b \in DOMAIN calls :
        TwoProvisionings(a, b) =>
            /\ calls[a].res.st = "returned" => calls[b].res = calls[a].res
            /\ calls[b].writes = 0
            /\ file = calls[b].before

\* the first call provisioned a secret and the second returned it
C5_Witness ==
    \E a, b \in DOMAIN calls :
        /\ TwoProvisionings(a, b)
        /\ calls[a].writes = 1
        /\ calls[b].res.st = "returned" /\ calls[b].res.val.v \in Secrets

\* the handler invocations made by call c
InvocationsOf(c) == {i \in DOMAIN handlerLog : handlerLog[i].call = c}

\* C6: a completed setStorageValue on a key with a registered handler has
\* invoked the handler exactly once, and did so after its write of the document.
C6_HandlerDispatch ==
    /\ \A c \in DOMAIN calls :
          /\ Done(c) /\ calls[c].op = "setStorageValue"
          /\ calls[c].key \in HandlerKeys
          => Cardinality(InvocationsOf(c)) = 1
    /\ \A i \in DOMAIN handlerLog :
          handlerLog[i].key \in HandlerKeys => handlerLog[i].writes = 1

\* two overlapping sets of handled keys have both completed
C6_Witness ==
    /\ Len(calls) = 2 /\ Done(1) /\ Done(2)
    /\ calls[1].overlapped
    /\ calls[1].key = "timeFormat" /\ calls[2].key = "launchOnStartup"
    /\ Len(handlerLog) = 2

\* C7: the handler is invoked with the value given to setStorageValue, not
\* with its encoded representation, whatever secure and the availability are.
C7_HandlerArgument ==
    \A i \in DOMAIN handlerLog :
        handlerLog[i].key \in HandlerKeys =>
            handlerLog[i].arg = calls[handlerLog[i].call].arg

\* C8: setStorageValue on a key that is no registered handler key invokes
\* no handler.
C8_NoDispatchWithoutHandler ==
    \A i \in DOMAIN handlerLog : handlerLog[i].key \in HandlerKeys

\* C9: getStorageValue(key) returns null, and does not throw, whenever the
\* file it read holds no valid JSON.
C9_CorruptionResilience ==
    \A g \in DOMAIN calls :
        /\ Done(g) /\ calls[g].op = "getStorageValue" /\ ~calls[g].secure
        /\ ~JSONParse(calls[g].read).ok
        => calls[g].res = Returned(Null)

\* C10: started on a missing file, the file, once it exists, always holds a
\* valid JSON object.
C10_DocumentInvariant ==
    file.exists => JSONParse(file.text).ok /\ JSONParse(file.text).val.t = "object"

\* two overlapping calls have written, and the file holds two entries
C10_Witness ==
    /\ file.exists
    /\ Len(calls) = 2 /\ calls[1].overlapped
    /\ calls[1].writes = 1 /\ calls[2].writes = 1
    /\ Len(JSONParse(file.text).val.props) = 2

\* a completed getStorageValue(key) with secure = false
PlainGet(g) == Done(g) /\ calls[g].op = "getStorageValue" /\ ~calls[g].secure

\* the key of call g has an entry in the document g read
Present(g) == HasOwn(calls[g].storage.props, calls[g].key)
Stored(g) == OwnValue(calls[g].storage.props, calls[g].key)

\* C11 (as claimed): getStorageValue(k) returns null only when k is absent
\* from the document it read, and returns a stored false, 0 or "" as it is.
C11_AbsentVersusFalsy ==
    \A g \in DOMAIN calls :
        PlainGet(g) =>
            /\ calls[g].res = Returned(Null) => ~Present(g)
            /\ Present(g) /\ Stored(g) \in {JFalse, JNum("0"), JStr("")}
                  => calls[g].res = Returned(Stored(g))

\* C11 (amended): getStorageValue(k) returns null only when k is absent or
\* the stored value is null itself; a stored false, 0 or "" is returned as it is.
C11_AbsentOrNullVersusFalsy ==
    \A g \in DOMAIN calls :
        PlainGet(g) =>
            /\ calls[g].res = Returned(Null) => ~Present(g) \/ Stored(g) = Null
            /\ Present(g) /\ Stored(g) \in {JFalse, JNum("0"), JStr("")}
                  => calls[g].res = Returned(Stored(g))

\* a stored empty string was read back
C11_Witness ==
    \E g \in DOMAIN calls :
        /\ PlainGet(g) /\ Present(g) /\ Stored(g) = JStr("")
        /\ calls[g].res = Returned(JStr(""))

\* C12: when the handler of a registered key fails, setStorageValue fails
\* with that failure, and the document was already written.
C12_HandlerFailurePropagation ==
    \A i \in DOMAIN handlerLog :
        /\ handlerLog[i].key \in HandlerKeys /\ handlerLog[i].failed
        /\ Done(handlerLog[i].call)
        => /\ calls[handlerLog[i].call].res = Threw("HandlerError")
           /\ handlerLog[i].writes = 1

\* the two latest calls are setStorageValue calls on different keys that
\* overlapped, b started after a, both have ended, and nothing else ran
\* beside them
OverlappingSets(a, b) ==
    /\ a \in DOMAIN calls /\ b = a + 1 /\ b = Len(calls)
    /\ Done(a) /\ Done(b)
    /\ calls[a].op = "setStorageValue" /\ calls[b].op = "setStorageValue"
    /\ calls[a].key # calls[b].key
    /\ calls[a].overlapped /\ calls[b].overlapped
    /\ \A c \in 1..(a - 1) : ~calls[c].overlapped

\* C13: of two overlapping setStorageValue calls on different keys the later
\* writer's whole snapshot is what the file holds once both have ended, so
\* the other call's update is on disk only if the later writer had read it;
\* C13_LostUpdate is the interleaving in which it had not.
C13_LastSnapshotWins ==
    \A a, b \in DOMAIN calls :
        OverlappingSets(a, b) => file.text = JSONStringify(calls[b].storage)

\* both calls returned and each wrote once, and the file holds the update of
\* the second only
C13_LostUpdate ==
    \E a, b \in DOMAIN calls :
        /\ OverlappingSets(a, b)
        /\ calls[a].res = Returned(Undefined) /\ calls[b].res = Returned(Undefined)
        /\ calls[a].writes = 1 /\ calls[b].writes = 1
        /\ Serializable(calls[a].value) /\ Serializable(calls[b].value)
        /\ calls[a].key # "__proto__" /\ calls[b].key # "__proto__"
        /\ RawOnDisk(calls[a].key) = Undefined
        /\ RawOnDisk(calls[b].key) = calls[b].value

\* every call made so far is a getSocketPassword, the first was started on a
\* store with no entries, and all have ended
ProvisioningsOnly ==
    /\ calls # <<>>
    /\ \A c \in DOMAIN calls : calls[c].op = "getSocketPassword" /\ Done(c)
    /\ ~calls[1].before.exists \/ calls[1].before.text = <<LBrace, RBrace>>

\* C14: getSocketPassword calls started on an empty store, overlapping in any
\* way, all return the same string, and it is the decoded value the document
\* holds under socketPassword once all have ended.
C14_StableSecret ==
    ProvisioningsOnly =>
        \A c \in DOMAIN calls :
            calls[c].res = GetOutcome(ReadDocument(file), "socketPassword", TRUE, encAvail)

\* the document call c was started on
DocumentBefore(c) == ParsedOrEmpty(calls[c].before.text)

\* a getSocketPassword call that ran alone and has ended, started on a
\* document in which the key socketPassword was present
ProvisioningOnPresent(g) ==
    /\ g = Len(calls) /\ Done(g) /\ ~calls[g].overlapped
    /\ calls[g].op = "getSocketPassword"
    /\ calls[g].before.exists
    /\ HasOwn(DocumentBefore(g).props, "socketPassword")

\* C15: when the key socketPassword is present in the document, with any
\* stored value, getSocketPassword returns the stored value decoded and
\* writes nothing; a secret is generated only when the key is absent.
C15_ProvisionOnlyWhenAbsent ==
    \A g \in DOMAIN calls :
        ProvisioningOnPresent(g) =>
            /\ calls[g].writes = 0
            /\ file = calls[g].before
            /\ calls[g].res = GetOutcome(DocumentBefore(g), "socketPassword", TRUE, encAvail)

\* a setStorageValue call that ran alone and has ended, having read a file
\* that is not valid JSON, with a JSON value to store
SetOnMalformed(s) ==
    /\ s = Len(calls) /\ Done(s) /\ ~calls[s].overlapped
    /\ calls[s].op = "setStorageValue"
    /\ ~JSONParse(calls[s].read).ok
    /\ Serializable(calls[s].arg)

\* C16: a setStorageValue(k, v) that finds invalid JSON in the file does not
\* fail (a failure of the key's change handler apart), and leaves a valid JSON
\* object on disk whose only entry is k with the representation of v.
C16_SetOnMalformed ==
    \A s \in DOMAIN calls :
        SetOnMalformed(s) =>
            /\ (\A i \in InvocationsOf(s) : ~handlerLog[i].failed)
                   => calls[s].res = Returned(Undefined)
            /\ JSONParse(file.text).ok
            /\ JSONParse(file.text).val = ObjectOf(<<[k |-> calls[s].key, v |-> calls[s].value]>>)

\* the entries of a document under keys other than key, in document order
Others(doc, key) == SelectSeq(doc.props, LAMBDA e : e.k # key)

\* a setStorageValue call that ran alone and has ended, started on a file
\* holding a valid JSON object
SetOnObject(s) ==
    /\ s = Len(calls) /\ Done(s) /\ ~calls[s].overlapped
    /\ calls[s].op = "setStorageValue"
    /\ calls[s].before.exists
    /\ JSONParse(calls[s].before.text).ok
    /\ JSONParse(calls[s].before.text).val.t = "object"

\* C17: a setStorageValue(k, v, s) that runs alone on a valid JSON object
\* leaves every key other than k with the stored value it had, and adds or
\* removes no key other than k.
C17_FrameOfSet ==
    \A s \in DOMAIN calls :
        SetOnObject(s) =>
            /\ JSONParse(file.text).ok /\ JSONParse(file.text).val.t = "object"
            /\ Others(JSONParse(file.text).val, calls[s].key)
                 = Others(JSONParse(calls[s].before.text).val, calls[s].key)

\* the call added its key to a document that held another key, and both are
\* on disk
C17_Witness ==
    \E s \in DOMAIN calls :
        /\ SetOnObject(s)
        /\ calls[s].writes = 1
        /\ Others(JSONParse(calls[s].before.text).val, calls[s].key) # <<>>
        /\ ~HasOwn(JSONParse(calls[s].before.text).val.props, calls[s].key)
        /\ Len(JSONParse(file.text).val.props) = 2

\* a getStorageValue or getSpotifyDc call that ran alone and has ended
ReadAlone(g) ==
    /\ g = Len(calls) /\ Done(g) /\ ~calls[g].overlapped
    /\ calls[g].op \in {"getStorageValue", "getSpotifyDc"}

\* C18: getStorageValue and getSpotifyDc leave an existing file's content as
\* it was; on a missing file they create it holding an empty object and
\* return null.
C18_ReadsDoNotMutate ==
    \A g \in DOMAIN calls :
        ReadAlone(g) =>
            /\ calls[g].before.exists => file = calls[g].before
            /\ ~calls[g].before.exists =>
                 /\ file = [exists |-> TRUE, text |-> <<LBrace, RBrace>>]
                 /\ calls[g].res = Returned(Null)

\* every call made so far is a non-secure setStorageValue on one handled key,
\* there are at least two, they overlapped, and all have ended
OverlappingSetsOnHandledKey ==
    /\ Len(calls) >= 2
    /\ calls[1].key \in HandlerKeys
    /\ \A c \in DOMAIN calls :
         /\ Done(c)
         /\ calls[c].op = "setStorageValue" /\ ~calls[c].secure
         /\ calls[c].key = calls[1].key
    /\ \E c \in DOMAIN calls : calls[c].overlapped

\* C19: once overlapping non-secure setStorageValue calls on one handled key
\* have all ended, the argument of the latest handler invocation is the value
\* the document holds under that key.
C19_HandlerAgreesWithDocument ==
    OverlappingSetsOnHandledKey =>
        /\ handlerLog # <<>>
        /\ handlerLog[Len(handlerLog)].arg = RawOnDisk(calls[1].key)

\* two such calls each wrote a different value and each ran the handler, and
\* the document holds the value of the second
C19_Witness ==
    /\ OverlappingSetsOnHandledKey
    /\ Len(calls) = 2 /\ Len(handlerLog) = 2
    /\ calls[1].writes = 1 /\ calls[2].writes = 1
    /\ handlerLog[1].arg # handlerLog[2].arg
    /\ handlerLog[2].call = 2
    /\ RawOnDisk(calls[1].key) = JStr("abc")

\* the page has rendered its current state and the effects of that render
\* have run
EffectsHaveRun == ~ui.renderPending /\ ~ui.effectsPending

\* C20: once the effects of the Settings page have run, after any tab
\* clicks, devMode changes and openings and closings, the current tab is
\* Advanced only if devMode is true; so the tab holding the Disable WebSocket
\* Authentication switch is rendered only in developer mode.
C20_AdvancedTabGating ==
    EffectsHaveRun =>
        /\ ui.currentTab = "Advanced" => ui.devMode
        /\ ui.view.currentTab = "Advanced" => ui.view.devMode

\* devMode was switched off on the Advanced tab of the open page, and the
\* second effect has brought the page back to General
C20_Witness ==
    /\ EffectsHaveRun
    /\ ui.redirected
    /\ ui.settingsOpen /\ ~ui.devMode
    /\ ui.currentTab = "General"
    /\ ui.deps = <<TRUE, "General">>
====
